---- MODULE Spec2Model ----
(***************************************************************************)
(* Model of psychopy/iohub/devices/eventfilters.py: the moving-window      *)
(* event field filters (MovingWindowFilter, PassThroughFilter,             *)
(* MedianFilter, WeightedAverageFilter, StampFilter).                      *)
(*                                                                         *)
(* Numbers are exact rationals <<n, d>> (d > 0, lowest terms): the code    *)
(* works on floats, and the filters divide.  Events are objects with an    *)
(* identity (1, 2, ...) whose filtered field lives in `heap`.              *)
(***************************************************************************)
EXTENDS Integers, Sequences, FiniteSets, TLC

\* ---------------------------------------------------------------- bounds
MaxLen == 3
MaxAdds == 4
MaxLevel == 2
MaxVal == 3
\* sample values submitted by the caller
Values == {0, 1, MaxVal}
\* weight vectors given to WeightedAverageFilter
WeightChoices == {<<2>>, <<1, 2>>, <<1, 2, 1>>}

\* ------------------------------------------------------------- rationals
RECURSIVE GCD(_, _)
GCD(a, b) == IF b = 0 THEN a ELSE GCD(b, a % b)

Abs(a) == IF a < 0 THEN -a ELSE a

Frac(n, d) ==
    LET g == GCD(Abs(n), Abs(d))
        s == IF d < 0 THEN -1 ELSE 1
    IN  <<(s * n) \div g, (s * d) \div g>>

FromInt(x) == <<x, 1>>

FAdd(a, b) == Frac(a[1] * b[2] + b[1] * a[2], a[2] * b[2])

FMul(a, b) == Frac(a[1] * b[1], a[2] * b[2])

FDiv(a, b) == Frac(a[1] * b[2], a[2] * b[1])

FLess(a, b) == a[1] * b[2] < b[1] * a[2]

RECURSIVE FSum(_)
FSum(s) == IF s = <<>> THEN FromInt(0) ELSE FAdd(Head(s), FSum(Tail(s)))

RECURSIVE IntSum(_)
IntSum(s) == IF s = <<>> THEN 0 ELSE Head(s) + IntSum(Tail(s))

\* ------------------------------------------- NumPyRingBuffer and deque
\* contents oldest -> newest; appending to a full buffer evicts the oldest
RingAppend(buf, x, n) ==
    IF Len(buf) < n THEN Append(buf, x) ELSE Append(Tail(buf), x)

RingIsFull(buf, n) == Len(buf) = n

RingMean(buf) == FDiv(FSum(buf), FromInt(Len(buf)))

RingClear == <<>>

\* mutant: a full deque refuses the new element
DequeAppend_KeepOld(q, e, n) ==
    IF Len(q) < n THEN Append(q, e) ELSE q

\* collections.deque(maxlen=n).append
DequeAppend(q, e, n) ==
    IF Len(q) < n THEN Append(q, e) ELSE Append(Tail(q), e)

\* ------------------------------------------------------ numpy reductions
RECURSIVE Insert(_, _)
Insert(x, s) ==
    IF s = <<>> THEN <<x>>
    ELSE IF FLess(Head(s), x) THEN <<Head(s)>> \o Insert(x, Tail(s))
    ELSE <<x>> \o s

RECURSIVE SortAsc(_)
SortAsc(s) == IF s = <<>> THEN <<>> ELSE Insert(Head(s), SortAsc(Tail(s)))

\* np.median: middle of the sorted elements, mean of the two middle ones
\* for an even count
NpMedian(s) ==
    LET t == SortAsc(s)
        n == Len(t)
    IN  IF n % 2 = 1 THEN t[(n + 1) \div 2]
        ELSE FDiv(FAdd(t[n \div 2], t[n \div 2 + 1]), FromInt(2))

\* np.convolve(a, v, 'valid') for len(a) = len(v): the single element
\* sum_i a[i] * v[n-1-i]
NpConvolveValid(a, v) ==
    LET n == Len(a)
    IN  FSum([i \in 1..n |-> FMul(a[i], v[n + 1 - i])])

\* weights / np.sum(weights): true division for a float array; for an
\* integer array the Python 2 `/` operator of numpy is floor division
NormalizeWeights(w, isFloat) ==
    LET total == IntSum(w)
    IN  [i \in 1..Len(w) |->
            IF isFloat THEN FDiv(FromInt(w[i]), FromInt(total))
            ELSE FromInt(w[i] \div total)]

\* ----------------------------------------------------------------- state
VARIABLES
    phase,      \* "new": before __init__; "ready": constructed; "failed": __init__ raised
    cls,        \* the class being instantiated
    kwargs,     \* the keyword arguments of the constructor call (gone once it returns)
    knot_pos,   \* the knot_pos handed to MovingWindowFilter.__init__ (recorded)
    chain,      \* chain[1] is the filter, chain[k+1] is chain[k].sub_filter
    weights,    \* WeightedAverageFilter._weights
    heap,       \* event id -> current value of the filtered field
    result,     \* what the last add() returned
    err,        \* the exception the last call raised, or "none"
    hist,       \* raw values added since construction or the last clear()
    nadds,      \* number of add() calls so far
    lastop      \* the last operation called

filterVars == <<phase, cls, kwargs, knot_pos, chain, weights, heap, result,
                err, hist, nadds, lastop>>

\* DeviceEventFilter instances (the host's filters) and the events they handle
VARIABLES
    dcls,           \* filter -> "DeviceEventFilter" (nothing overridden) or "Subclass"
    input_events,   \* filter -> _input_events
    output_events,  \* filter -> _output_events
    enabled,        \* filter -> _enabled
    slots,          \* event -> its event-id and filter-id slots
    next_event_id,  \* the process-wide counter behind Computer._getNextEventID()
    nsub,           \* number of events the host has made so far
    stamped,        \* the ids addOutputEvent drew, in emit order (recorded)
    emitted,        \* filter -> events emitted since its last reset (recorded)
    drained,        \* filter -> events returned by its drains since its last reset (recorded)
    dlast           \* the last call: operation, filter, exception, return value

devVars == <<dcls, input_events, output_events, enabled, slots, next_event_id,
             nsub, stamped, emitted, drained, dlast>>

\* a TargetStim: the outer shape is the stimulus itself, the inner one self.inner
VARIABLES
    outer,      \* the ShapeStim attributes of the target itself
    inner,      \* the ShapeStim attributes of self.inner
    style,      \* self._style
    scale,      \* self._scale, when it has been set
    made,       \* what radius, innerRadius and the contours read right after construction (recorded)
    nassign,    \* number of scale and radius assignments so far
    direct,     \* whether radius or innerRadius has been assigned directly (recorded)
    tlast       \* the last call: operation, its argument, the style before it

tgtVars == <<outer, inner, style, scale, made, nassign, direct, tlast>>

vars == <<filterVars, devVars, tgtVars>>

Classes == {"MovingWindowFilter", "PassThroughFilter", "MedianFilter",
            "WeightedAverageFilter", "StampFilter"}

StrKnot(s) == [isStr |-> TRUE, s |-> s, n |-> 0]

NumKnot(n) == [isStr |-> FALSE, s |-> "", n |-> n]

KnotInputs ==
    {StrKnot(s) : s \in {"center", "latest", "oldest", "middle"}}
        \cup {NumKnot(n) : n \in -1..(MaxLen + 1)}

NoArgs == [length |-> 0, knot_pos |-> NumKnot(0), inplace |-> FALSE,
           evmode |-> FALSE, weights |-> <<>>, wfloat |-> FALSE, level |-> 0]

NoResult == [some |-> FALSE, ev |-> 0, val |-> FromInt(0)]

\* the arguments a caller may pass to cls(**kwargs)
KwargsFor(c) ==
    [length : 1..MaxLen,
     knot_pos : KnotInputs,
     inplace : BOOLEAN,
     evmode : BOOLEAN,
     weights : IF c = "WeightedAverageFilter" THEN WeightChoices ELSE {<<>>},
     wfloat : IF c = "WeightedAverageFilter" THEN BOOLEAN ELSE {FALSE},
     level : IF c = "StampFilter" THEN 1..MaxLevel ELSE {0}]

\* no device filter and no target exists
DevIdle ==
    /\ dcls = <<>>
    /\ input_events = <<>>
    /\ output_events = <<>>
    /\ enabled = <<>>
    /\ slots = <<>>
    /\ next_event_id = 1
    /\ nsub = 0
    /\ stamped = <<>>
    /\ emitted = <<>>
    /\ drained = <<>>
    /\ dlast = <<>>

TargetIdle ==
    /\ outer = <<>>
    /\ inner = <<>>
    /\ style = ""
    /\ scale = <<>>
    /\ made = <<>>
    /\ nassign = 0
    /\ direct = FALSE
    /\ tlast = <<>>

\* no field filter exists
FilterIdle ==
    /\ phase = "none"
    /\ cls = ""
    /\ kwargs = NoArgs
    /\ knot_pos = NumKnot(0)
    /\ chain = <<>>
    /\ weights = <<>>
    /\ heap = <<>>
    /\ result = NoResult
    /\ err = "none"
    /\ hist = <<>>
    /\ nadds = 0
    /\ lastop = "none"

Init ==
    /\ DevIdle
    /\ TargetIdle
    /\ phase = "new"
    /\ cls \in Classes
    /\ kwargs \in KwargsFor(cls)
    /\ knot_pos = NumKnot(0)
    /\ chain = <<>>
    /\ weights = <<>>
    /\ heap = <<>>
    /\ result = NoResult
    /\ err = "none"
    /\ hist = <<>>
    /\ nadds = 0
    /\ lastop = "none"

\* ----------------------------------------------------------- construction
\* mutant: knot_pos > length instead of knot_pos >= length
KnotError_OffByOne(kp, length) ==
    IF kp.isStr
    THEN \/ (kp.s = "center" /\ length % 2 = 0)
         \/ kp.s \notin {"center", "latest", "oldest"}
    ELSE kp.n < 0 \/ kp.n > length

\* MovingWindowFilter.__init__: the knot_pos checks, then the buffers
KnotError(kp, length) ==
    IF kp.isStr
    THEN \/ (kp.s = "center" /\ length % 2 = 0)
         \/ kp.s \notin {"center", "latest", "oldest"}
    ELSE kp.n < 0 \/ kp.n >= length

KnotIndex(kp, length) ==
    IF kp.isStr
    THEN IF kp.s = "center" THEN length \div 2
         ELSE IF kp.s = "latest" THEN 0
         ELSE length - 1
    ELSE kp.n

MovingWindowInit(kw) ==
    [length |-> kw.length,
     active_index |-> KnotIndex(kw.knot_pos, kw.length),
     inplace |-> kw.inplace,
     evmode |-> kw.evmode,
     level |-> kw.level,
     buf |-> <<>>,
     events |-> <<>>]

\* StampFilter.__init__: forces knot_pos and length, then builds the
\* sub filter of level - 1 with inplace off
StampKwargs(kw) == [kw EXCEPT !.knot_pos = StrKnot("center"), !.length = 3]

\* mutant: the sub filter inherits the caller's inplace
SubKwargs_KeepInplace(kw) == [StampKwargs(kw) EXCEPT !.level = kw.level - 1]

\* the kwargs the sub filter is built with
SubKwargs(kw) == [StampKwargs(kw) EXCEPT !.inplace = FALSE, !.level = kw.level - 1]

RECURSIVE StampInit(_)
StampInit(kw) ==
    <<MovingWindowInit(StampKwargs(kw))>>
        \o (IF kw.level > 1 THEN StampInit(SubKwargs(kw)) ELSE <<>>)

\* mutant: the caller's length is kept
PassThroughKwargs_KeepLength(kw) == [kw EXCEPT !.knot_pos = NumKnot(0)]

PassThroughKwargs(kw) == [kw EXCEPT !.length = 1, !.knot_pos = NumKnot(0)]

WeightedKwargs(kw) == [kw EXCEPT !.length = Len(kw.weights)]

\* what every constructor leaves alone
Fresh ==
    /\ kwargs' = NoArgs
    /\ heap' = <<>>
    /\ result' = NoResult
    /\ hist' = <<>>
    /\ nadds' = 0
    /\ lastop' = "construct"
    /\ UNCHANGED cls
    /\ UNCHANGED <<devVars, tgtVars>>

\* cls(**kw) where the class passes kw on to MovingWindowFilter.__init__
ConstructWith(kw, w) ==
    /\ knot_pos' = kw.knot_pos
    /\ IF KnotError(kw.knot_pos, kw.length)
       THEN /\ phase' = "failed"
            /\ err' = "ValueError"
            /\ chain' = <<>>
            /\ weights' = <<>>
       ELSE /\ phase' = "ready"
            /\ err' = "none"
            /\ chain' = <<MovingWindowInit(kw)>>
            /\ weights' = w
    /\ Fresh

ConstructMovingWindow ==
    /\ phase = "new"
    /\ cls = "MovingWindowFilter"
    /\ ConstructWith(kwargs, <<>>)

ConstructMedian ==
    /\ phase = "new"
    /\ cls = "MedianFilter"
    /\ ConstructWith(kwargs, <<>>)

ConstructPassThrough ==
    /\ phase = "new"
    /\ cls = "PassThroughFilter"
    /\ ConstructWith(PassThroughKwargs(kwargs), <<>>)

ConstructWeightedAverage ==
    /\ phase = "new"
    /\ cls = "WeightedAverageFilter"
    /\ ConstructWith(WeightedKwargs(kwargs),
                     NormalizeWeights(kwargs.weights, kwargs.wfloat))

ConstructStamp ==
    /\ phase = "new"
    /\ cls = "StampFilter"
    /\ knot_pos' = StrKnot("center")
    /\ phase' = "ready"
    /\ err' = "none"
    /\ chain' = StampInit(kwargs)
    /\ weights' = <<>>
    /\ Fresh

\* ------------------------------------------------------------ filteredValue
\* mutant: the mean taken over one sample too many
MeanFilteredValue_OffByOne(buf) == FDiv(FSum(buf), FromInt(Len(buf) + 1))

MeanFilteredValue(buf) == RingMean(buf)

PassThroughFilteredValue(buf) == buf[1]

\* mutant: the middle of the window as it arrived
MedianFilteredValue_Unsorted(buf) == buf[(Len(buf) + 1) \div 2]

MedianFilteredValue(buf) == NpMedian(buf)

WeightedFilteredValue(buf, w) == NpConvolveValid(buf, w)

\* mutant: the middle sample whatever the window
StampFilteredValue_Middle(buf) == buf[2]

\* StampFilter.filteredValue of the innermost filter: e1, e2, e3 are the
\* window oldest to newest
StampFilteredValue(buf) ==
    LET e1 == buf[1]
        e2 == buf[2]
        e3 == buf[3]
    IN  IF \/ ~(FLess(e1, e2) /\ FLess(e2, e3))
           \/ ~(FLess(e3, e2) /\ FLess(e2, e1))
        THEN FDiv(FAdd(e1, e3), FromInt(2))
        ELSE e2

\* self.filteredValue() of instance k of chain c, by class; a StampFilter
\* with a sub filter returns the sub filter's value
RECURSIVE FilteredValue(_, _, _, _)
FilteredValue(c, k, class, w) ==
    IF class = "StampFilter"
    THEN IF k < Len(c) THEN FilteredValue(c, k + 1, class, w)
         ELSE StampFilteredValue(c[k].buf)
    ELSE IF class = "PassThroughFilter" THEN PassThroughFilteredValue(c[k].buf)
    ELSE IF class = "MedianFilter" THEN MedianFilteredValue(c[k].buf)
    ELSE IF class = "WeightedAverageFilter" THEN WeightedFilteredValue(c[k].buf, w)
    ELSE MeanFilteredValue(c[k].buf)

\* ---------------------------------------------------------------------- add
Outcome(c, h, r, x) == [chain |-> c, heap |-> h, res |-> r, err |-> x]

\* mutant: reports full one sample early
IsFull_OffByOne(inst) == Len(inst.buf) >= inst.length - 1

\* MovingWindowFilter.isFull
IsFull(inst) == RingIsFull(inst.buf, inst.length)

\* mutant: writes whatever the inplace flag says
InPlaceWrite_Always(h, tap, inplace, fv) == [h EXCEPT ![tap] = fv]

\* if self._inplace: self._events[self._active_index][field] = fv
InPlaceWrite(h, tap, inplace, fv) ==
    IF inplace THEN [h EXCEPT ![tap] = fv] ELSE h

\* mutant: the window refers to the events' fields instead of holding the
\* values read at add time, so an in-place write shows in the window
MovingWindowAdd_Feedback(c, h, k, class, w, isEv, e, v) ==
    LET inst == c[k]
        val == IF isEv THEN h[e] ELSE v
        buf1 == RingAppend(inst.buf, val, inst.length)
        ev1 == IF isEv THEN DequeAppend(inst.events, e, inst.length)
               ELSE inst.events
        c1 == [c EXCEPT ![k].buf = buf1, ![k].events = ev1]
    IN  IF ~IsFull(c1[k]) THEN Outcome(c1, h, NoResult, "none")
        ELSE IF ~isEv
        THEN Outcome(c1, h,
                     [some |-> TRUE, ev |-> 0,
                      val |-> FilteredValue(c1, k, class, w)], "none")
        ELSE IF inst.active_index + 1 > Len(ev1)
        THEN Outcome(c1, h, NoResult, "IndexError")
        ELSE LET tap == ev1[inst.active_index + 1]
                 fv == FilteredValue(c1, k, class, w)
                 h1 == InPlaceWrite(h, tap, inst.inplace, fv)
                 c2 == IF inst.inplace
                       THEN [c1 EXCEPT ![k].buf[inst.active_index + 1] = fv]
                       ELSE c1
             IN  Outcome(c2, h1, [some |-> TRUE, ev |-> tap, val |-> fv], "none")

\* MovingWindowFilter.add on instance k: isEv says the argument is an
\* event (a list), e is its identity, v the scalar given otherwise
MovingWindowAdd(c, h, k, class, w, isEv, e, v) ==
    LET inst == c[k]
        val == IF isEv THEN h[e] ELSE v
        buf1 == RingAppend(inst.buf, val, inst.length)
        ev1 == IF isEv THEN DequeAppend(inst.events, e, inst.length)
               ELSE inst.events
        c1 == [c EXCEPT ![k].buf = buf1, ![k].events = ev1]
    IN  IF ~IsFull(c1[k]) THEN Outcome(c1, h, NoResult, "none")
        ELSE IF ~isEv
        THEN Outcome(c1, h,
                     [some |-> TRUE, ev |-> 0,
                      val |-> FilteredValue(c1, k, class, w)], "none")
        ELSE IF inst.active_index + 1 > Len(ev1)
        THEN Outcome(c1, h, NoResult, "IndexError")
        ELSE LET tap == ev1[inst.active_index + 1]
                 h1 == InPlaceWrite(h, tap, inst.inplace,
                                    FilteredValue(c1, k, class, w))
             IN  Outcome(c1, h1,
                         [some |-> TRUE, ev |-> tap,
                          val |-> FilteredValue(c1, k, class, w)], "none")

\* StampFilter.add on instance k: the sub filter first, whose output (if
\* any) goes into this window, then MovingWindowFilter.add
RECURSIVE StampAdd(_, _, _, _, _, _)
StampAdd(c, h, k, isEv, e, v) ==
    IF k < Len(c)
    THEN LET sub == StampAdd(c, h, k + 1, isEv, e, v)
         IN  IF sub.err # "none" THEN sub
             ELSE IF ~sub.res.some
             THEN MovingWindowAdd(sub.chain, sub.heap, k, "StampFilter", <<>>,
                                  isEv, e, v)
             ELSE LET c1 == [sub.chain EXCEPT
                                ![k].buf = RingAppend(@, sub.res.val, c[k].length)]
                  IN  IF ~c[k].evmode
                      THEN Outcome(c1, sub.heap, NoResult, "AttributeError")
                      ELSE MovingWindowAdd(
                               [c1 EXCEPT ![k].events =
                                              DequeAppend(@, e, c[k].length)],
                               sub.heap, k, "StampFilter", <<>>, isEv, e, v)
    ELSE MovingWindowAdd(c, h, k, "StampFilter", <<>>, isEv, e, v)

\* the events some window of the chain still refers to
RECURSIVE Referenced(_)
Referenced(c) ==
    IF c = <<>> THEN {}
    ELSE {Head(c).events[i] : i \in 1..Len(Head(c).events)} \cup Referenced(Tail(c))

\* the add() of the class, called with the scalar x, or with the new event
\* e whose field is x when the filter works on events
FilterAdd(c, h, class, w, e, x) ==
    LET isEv == c[1].evmode
        h0 == IF isEv THEN (e :> FromInt(x)) @@ h ELSE h
    IN  IF class = "StampFilter"
        THEN StampAdd(c, h0, 1, isEv, e, FromInt(x))
        ELSE MovingWindowAdd(c, h0, 1, class, w, isEv, e, FromInt(x))

\* filter.add(x) for a scalar filter, filter.add(event) with a new event
\* whose field is x otherwise
Add ==
    /\ phase = "ready"
    /\ nadds < MaxAdds
    /\ \E x \in Values :
         LET r == FilterAdd(chain, heap, cls, weights, nadds + 1, x)
             live == Referenced(chain) \cup Referenced(r.chain)
         IN  /\ chain' = r.chain
             /\ heap' = [i \in (DOMAIN r.heap) \cap live |-> r.heap[i]]
             /\ result' = r.res
             /\ err' = r.err
             /\ hist' = Append(hist, x)
    /\ nadds' = nadds + 1
    /\ lastop' = "add"
    /\ UNCHANGED <<phase, cls, kwargs, knot_pos, weights>>
    /\ UNCHANGED <<devVars, tgtVars>>

\* filter.clear(): this instance's buffers only
Clear ==
    /\ phase = "ready"
    /\ chain' = [chain EXCEPT ![1].buf = RingClear, ![1].events = <<>>]
    /\ heap' = [i \in (DOMAIN heap) \cap Referenced(chain') |-> heap[i]]
    /\ result' = NoResult
    /\ err' = "none"
    /\ hist' = <<>>
    /\ lastop' = "clear"
    /\ UNCHANGED <<phase, cls, kwargs, knot_pos, weights, nadds>>
    /\ UNCHANGED <<devVars, tgtVars>>

Next ==
    \/ ConstructMovingWindow
    \/ ConstructMedian
    \/ ConstructPassThrough
    \/ ConstructWeightedAverage
    \/ ConstructStamp
    \/ Add
    \/ Clear

Spec == Init /\ [][Next]_vars

\* ======================================================= DeviceEventFilter
MaxSubmits == 3

\* the filters of the host
DevFilters == {1, 2}

\* the filter_id property a subclass defines
FilterIdOf(f) == 100 + f

\* the slots of an event as the device hands it over (not yet filtered)
RawSlots == [event_id |-> 0, filter_id |-> 0]

\* Computer._getNextEventID(): the next value of the process-wide counter
GetNextEventID(n) == [id |-> n, next |-> n + 1]

\* mutant: filter_id of the base class returns None
MemberRaises_Never(class) == FALSE

\* filter_id, input_event_types and process of the base class raise
MemberRaises(class) == class = "DeviceEventFilter"

\* the exception the call ends with ("none": it returns)
MemberError(class) == IF MemberRaises(class) THEN "RuntimeError" ELSE "none"

\* the record of a call: ret is what it returned, seen the pending events it
\* found (process(): the inputs; reset(): the inputs and outputs it dropped),
\* calls the number of process() calls it made
DevLast(op, f, x, ret, seen, calls) ==
    [op |-> op, f |-> f, err |-> x, ret |-> ret, seen |-> seen, calls |-> calls]

\* the host's filters right after construction, all of class `class`
DevStart(class) ==
    /\ dcls = [f \in DevFilters |-> class]
    /\ input_events = [f \in DevFilters |-> <<>>]
    /\ output_events = [f \in DevFilters |-> <<>>]
    /\ enabled = [f \in DevFilters |-> FALSE]
    /\ slots = <<>>
    /\ next_event_id = 1
    /\ nsub = 0
    /\ stamped = <<>>
    /\ emitted = [f \in DevFilters |-> <<>>]
    /\ drained = [f \in DevFilters |-> <<>>]
    /\ dlast = DevLast("construct", 0, "none", <<>>, <<>>, 0)
    /\ FilterIdle
    /\ TargetIdle

DevInit == DevStart("Subclass")

BaseInit == DevStart("DeviceEventFilter")

\* the part of the state addOutputEvent works on
DevState == [slots |-> slots, out |-> output_events, next |-> next_event_id,
             stamped |-> stamped, emitted |-> emitted, err |-> "none"]

\* mutant: the event is put in front of the pending outputs
QueueOutput_Front(q, e) == <<e>> \o q

\* self._output_events.append(e)
QueueOutput(q, e) == Append(q, e)

\* addOutputEvent(e) on filter f: the event id is drawn and stored, then
\* self.filter_id is read (which raises in the base class), then e is queued
AddOutputEvent(st, f, e) ==
    LET drawn == GetNextEventID(st.next)
        st1 == [st EXCEPT !.slots[e].event_id = drawn.id, !.next = drawn.next]
    IN  IF MemberRaises(dcls[f]) THEN [st1 EXCEPT !.err = MemberError(dcls[f])]
        ELSE [st1 EXCEPT !.slots[e].filter_id = FilterIdOf(f),
                         !.out[f] = QueueOutput(@, e),
                         !.stamped = Append(@, drawn.id),
                         !.emitted[f] = Append(@, e)]

RECURSIVE AddOutputEvents(_, _, _)
AddOutputEvents(st, f, es) ==
    IF es = <<>> THEN st
    ELSE AddOutputEvents(AddOutputEvent(st, f, Head(es)), f, Tail(es))

\* what a subclass's process() may do with the pending inputs: emit none
\* of them, the last one, or all of them, and clear them or not
ProcessPlans == [emit : {"none", "last", "all"}, clear : BOOLEAN]

PlanEmits(plan, pending) ==
    IF plan.emit = "none" \/ pending = <<>> THEN <<>>
    ELSE IF plan.emit = "last" THEN <<pending[Len(pending)]>>
    ELSE pending

\* process() of filter f with the pending inputs `pending`
Process(f, pending, plan) ==
    /\ IF MemberRaises(dcls[f])
       THEN /\ input_events' = [input_events EXCEPT ![f] = pending]
            /\ UNCHANGED <<slots, output_events, next_event_id, stamped, emitted>>
       ELSE LET st == AddOutputEvents(
                          [DevState EXCEPT !.slots =
                              [e \in DOMAIN slots \cup {pending[i] : i \in 1..Len(pending)} |->
                                  IF e \in DOMAIN slots THEN slots[e] ELSE RawSlots]],
                          f, PlanEmits(plan, pending))
            IN  /\ input_events' = [input_events EXCEPT
                                       ![f] = IF plan.clear THEN <<>> ELSE pending]
                /\ slots' = st.slots
                /\ output_events' = st.out
                /\ next_event_id' = st.next
                /\ stamped' = st.stamped
                /\ emitted' = st.emitted

\* mutant: the event is not queued before process() runs
QueueInput_Drop(q, evt) == q

\* self._input_events.append(evt)
QueueInput(q, evt) == Append(q, evt)

\* _addInputEvent(evt) with a new event: queue it, then process()
Submit(f) ==
    /\ nsub < MaxSubmits
    /\ LET evt == nsub + 1
           pending == QueueInput(input_events[f], evt)
       IN  \E plan \in ProcessPlans :
             /\ MemberRaises(dcls[f]) => plan = [emit |-> "none", clear |-> FALSE]
             /\ Process(f, pending, plan)
             /\ slots' \in [DOMAIN slots' -> [event_id : Nat, filter_id : Nat]]
             /\ dlast' = DevLast("submit", f,
                                 MemberError(dcls[f]),
                                 <<>>, pending, 1)
    /\ nsub' = nsub + 1
    /\ UNCHANGED <<dcls, enabled, drained>>
    /\ UNCHANGED <<filterVars, tgtVars>>

\* mutant: the queue is returned but not replaced
RemoveOutputEvents_Keep(q) == [ret |-> q, left |-> q]

\* _removeOutputEvents(): the queue is returned and replaced by a new list
RemoveOutputEvents(q) == [ret |-> q, left |-> <<>>]

Drain(f) ==
    /\ LET r == RemoveOutputEvents(output_events[f])
       IN  /\ output_events' = [output_events EXCEPT ![f] = r.left]
           /\ drained' = [drained EXCEPT ![f] = @ \o r.ret]
           /\ dlast' = DevLast("drain", f, "none", r.ret, <<>>, 0)
    /\ UNCHANGED <<dcls, input_events, enabled, slots, next_event_id, nsub,
                   stamped, emitted>>
    /\ UNCHANGED <<filterVars, tgtVars>>

\* mutant: only the pending inputs are dropped
ResetQueues_InputsOnly(ins, outs) == [ins |-> <<>>, outs |-> outs]

\* reset(): both queues become new empty lists
ResetQueues(ins, outs) == [ins |-> <<>>, outs |-> <<>>]

Reset(f) ==
    /\ LET r == ResetQueues(input_events[f], output_events[f])
       IN  /\ input_events' = [input_events EXCEPT ![f] = r.ins]
           /\ output_events' = [output_events EXCEPT ![f] = r.outs]
    /\ emitted' = [emitted EXCEPT ![f] = <<>>]
    /\ drained' = [drained EXCEPT ![f] = <<>>]
    /\ dlast' = DevLast("reset", f, "none", <<>>,
                        input_events[f] \o output_events[f], 0)
    /\ UNCHANGED <<dcls, enabled, slots, next_event_id, nsub, stamped>>
    /\ UNCHANGED <<filterVars, tgtVars>>

\* clearInputEvents()
ClearInputEvents(f) ==
    /\ input_events[f] # <<>>
    /\ input_events' = [input_events EXCEPT ![f] = <<>>]
    /\ dlast' = DevLast("clearInputEvents", f, "none", <<>>, <<>>, 0)
    /\ UNCHANGED <<dcls, output_events, enabled, slots, next_event_id, nsub,
                   stamped, emitted, drained>>
    /\ UNCHANGED <<filterVars, tgtVars>>

\* filter.enable = v
SetEnable(f) ==
    /\ \E v \in BOOLEAN :
         /\ v # enabled[f]
         /\ enabled' = [enabled EXCEPT ![f] = v]
    /\ dlast' = DevLast("enable", f, "none", <<>>, <<>>, 0)
    /\ UNCHANGED <<dcls, input_events, output_events, slots, next_event_id,
                   nsub, stamped, emitted, drained>>
    /\ UNCHANGED <<filterVars, tgtVars>>

\* reading filter.filter_id or filter.input_event_types
ReadMember(f) ==
    /\ \E m \in {"filter_id", "input_event_types"} :
         /\ dlast.op # m \/ dlast.f # f
         /\ dlast' = DevLast(m, f,
                             MemberError(dcls[f]),
                             IF MemberRaises(dcls[f]) \/ m # "filter_id" THEN <<>>
                             ELSE <<FilterIdOf(f)>>,
                             <<>>, 0)
    /\ UNCHANGED <<dcls, input_events, output_events, enabled, slots,
                   next_event_id, nsub, stamped, emitted, drained>>
    /\ UNCHANGED <<filterVars, tgtVars>>

\* filter.process() called on a filter of the base class
CallProcess(f) ==
    /\ MemberRaises(dcls[f])
    /\ dlast.op # "process" \/ dlast.f # f
    /\ dlast' = DevLast("process", f, MemberError(dcls[f]), <<>>, input_events[f], 1)
    /\ UNCHANGED <<dcls, input_events, output_events, enabled, slots,
                   next_event_id, nsub, stamped, emitted, drained>>
    /\ UNCHANGED <<filterVars, tgtVars>>

\* filter.addOutputEvent(e) called with a new event on a filter of the base class
CallAddOutputEvent(f) ==
    /\ MemberRaises(dcls[f])
    /\ nsub < MaxSubmits
    /\ LET e == nsub + 1
           st == AddOutputEvent([DevState EXCEPT !.slots = (e :> RawSlots) @@ slots],
                                f, e)
       IN  /\ slots' = st.slots
           /\ output_events' = st.out
           /\ next_event_id' = st.next
           /\ stamped' = st.stamped
           /\ emitted' = st.emitted
           /\ dlast' = DevLast("addOutputEvent", f, st.err, <<>>, <<>>, 0)
    /\ nsub' = nsub + 1
    /\ UNCHANGED <<dcls, input_events, enabled, drained>>
    /\ UNCHANGED <<filterVars, tgtVars>>

\* filters of a subclass that implements process() and filter_id
DevNext ==
    \E f \in DevFilters :
        \/ Submit(f)
        \/ Drain(f)
        \/ Reset(f)
        \/ ClearInputEvents(f)
        \/ SetEnable(f)

SpecDev == DevInit /\ [][DevNext]_vars

\* filters of DeviceEventFilter itself, with nothing overridden
BaseNext ==
    \E f \in DevFilters :
        \/ Submit(f)
        \/ Drain(f)
        \/ Reset(f)
        \/ ClearInputEvents(f)
        \/ SetEnable(f)
        \/ ReadMember(f)
        \/ CallProcess(f)
        \/ CallAddOutputEvent(f)

SpecBase == BaseInit /\ [][BaseNext]_vars

\* ============================================================== TargetStim
MaxAssigns == 3

\* radius and innerRadius arguments
Radii == {FromInt(1), FromInt(2)}

InnerRadii == {Frac(1, 2)}

\* scale factors (non-zero)
Factors == {FromInt(1), FromInt(2), Frac(1, 2)}

knownStyles == {"circles", "cross"}

\* style values a caller may pass: the known ones and an unrecognized one
StyleInputs == knownStyles \cup {"dots"}

\* innerLineWidth=None
NoWidth == 0

\* the lineWidth argument
LineWidth == 2

\* a ShapeStim: its attributes hold what was assigned to them
ShapeStim(vertices, size, lineWidth, fillColor, lineColor) ==
    [vertices |-> vertices, size |-> size, lineWidth |-> lineWidth,
     fillColor |-> fillColor, borderColor |-> lineColor]

TargetArgs ==
    [style : StyleInputs, radius : Radii, innerRadius : InnerRadii,
     innerFillColor : {"None", "red"}, innerBorderColor : {"None", "white"},
     innerLineWidth : {NoWidth, 1}]

\* mutant: 'cross' puts the cross on the outer shape
StyleVertices_Swapped(value, o, i) ==
    IF value = "circles" THEN [outer |-> "circle", inner |-> "circle"]
    ELSE IF value = "cross" THEN [outer |-> "cross", inner |-> "circle"]
    ELSE [outer |-> o, inner |-> i]

\* the contours the style setter leaves on the two shapes
StyleVertices(value, o, i) ==
    IF value = "circles" THEN [outer |-> "circle", inner |-> "circle"]
    ELSE IF value = "cross" THEN [outer |-> "circle", inner |-> "cross"]
    ELSE [outer |-> o, inner |-> i]

\* self.style = value
StyleSet(o, i, value) ==
    LET v == StyleVertices(value, o.vertices, i.vertices)
    IN  [style |-> value,
         outer |-> [o EXCEPT !.vertices = v.outer],
         inner |-> [i EXCEPT !.vertices = v.inner]]

\* TargetStim.__init__
TargetStimInit(a) ==
    StyleSet(ShapeStim("circle",
                       <<FMul(a.radius, FromInt(2)), FMul(a.radius, FromInt(2))>>,
                       LineWidth, "white10", "white"),
             ShapeStim("circle",
                       <<FMul(a.innerRadius, FromInt(2)), FMul(a.innerRadius, FromInt(2))>>,
                       IF a.innerLineWidth = NoWidth THEN LineWidth ELSE a.innerLineWidth,
                       a.innerFillColor, a.innerBorderColor),
             a.style)

\* the scale getter
ScaleGet(sc) == IF sc.has THEN sc.val ELSE FromInt(1)

\* the radius and innerRadius getters, on the shape they read
RadiusGet(shape) == FDiv(FAdd(shape.size[1], shape.size[2]), FromInt(2))

\* the radius and innerRadius setters
RadiusSet(shape, value) ==
    [shape EXCEPT !.size = <<FMul(value, FromInt(2)), FMul(value, FromInt(2))>>]

\* the scale setter
ScaleSet(o, i, sc, newScale) ==
    LET oldScale == ScaleGet(sc)
        o1 == RadiusSet(o, FMul(FDiv(RadiusGet(o), oldScale), newScale))
        i1 == RadiusSet(i, FMul(FDiv(RadiusGet(i), oldScale), newScale))
    IN  [outer |-> o1, inner |-> i1, scale |-> [has |-> TRUE, val |-> newScale]]

TargetLast(op, arg, was) == [op |-> op, arg |-> arg, was |-> was]

TargetInit ==
    /\ \E a \in TargetArgs :
         LET t == TargetStimInit(a)
         IN  /\ outer = t.outer
             /\ inner = t.inner
             /\ style = t.style
             /\ made = [args |-> a, radius |-> RadiusGet(t.outer),
                        innerRadius |-> RadiusGet(t.inner)]
    /\ scale = [has |-> FALSE, val |-> FromInt(1)]
    /\ nassign = 0
    /\ direct = FALSE
    /\ tlast = TargetLast("construct", "", "")
    /\ FilterIdle
    /\ DevIdle

\* target.style = value
SetStyle ==
    /\ \E value \in StyleInputs :
         LET t == StyleSet(outer, inner, value)
         IN  /\ outer' = t.outer
             /\ inner' = t.inner
             /\ style' = t.style
             /\ tlast' = TargetLast("style", value, style)
    /\ UNCHANGED <<scale, made, nassign, direct>>
    /\ UNCHANGED <<filterVars, devVars>>

\* target.scale = newScale
SetScale ==
    /\ nassign < MaxAssigns
    /\ \E newScale \in Factors :
         LET t == ScaleSet(outer, inner, scale, newScale)
         IN  /\ outer' = t.outer
             /\ inner' = t.inner
             /\ scale' = t.scale
             /\ tlast' = TargetLast("scale", newScale, "")
    /\ nassign' = nassign + 1
    /\ UNCHANGED <<style, made, direct>>
    /\ UNCHANGED <<filterVars, devVars>>

\* target.radius = value
SetRadius ==
    /\ nassign < MaxAssigns
    /\ \E value \in Radii :
         /\ outer' = RadiusSet(outer, value)
         /\ tlast' = TargetLast("radius", value, "")
    /\ nassign' = nassign + 1
    /\ direct' = TRUE
    /\ UNCHANGED <<inner, style, scale, made>>
    /\ UNCHANGED <<filterVars, devVars>>

\* target.innerRadius = value
SetInnerRadius ==
    /\ nassign < MaxAssigns
    /\ \E value \in InnerRadii :
         /\ inner' = RadiusSet(inner, value)
         /\ tlast' = TargetLast("innerRadius", value, "")
    /\ nassign' = nassign + 1
    /\ direct' = TRUE
    /\ UNCHANGED <<outer, style, scale, made>>
    /\ UNCHANGED <<filterVars, devVars>>

TargetNext ==
    \/ SetStyle
    \/ SetScale
    \/ SetRadius
    \/ SetInnerRadius

SpecTarget == TargetInit /\ [][TargetNext]_vars

\* ------------------------------------------------ foreColor and iteration
\* values assigned to foreColor
ForeColors == {"None", "blue"}

\* values assigned to a colour of the inner shape itself
InnerColors == {"None", "red"}

\* mutant: the border colour is read first
ForeColorGet_BorderFirst(i) ==
    IF i.borderColor # "None" THEN i.borderColor ELSE i.fillColor

\* the foreColor getter: self.inner.fillColor or self.inner.borderColor
ForeColorGet(i) ==
    IF i.fillColor # "None" THEN i.fillColor ELSE i.borderColor

\* mutant: both colours are assigned whatever they hold
ForeColorSet_Both(i, value) ==
    [i EXCEPT !.fillColor = value, !.borderColor = value]

\* the foreColor setter
ForeColorSet(i, value) ==
    LET i1 == IF i.fillColor # "None" THEN [i EXCEPT !.fillColor = value] ELSE i
    IN  IF i1.borderColor # "None" THEN [i1 EXCEPT !.borderColor = value] ELSE i1

\* target.foreColor = value
SetForeColor ==
    /\ \E value \in ForeColors :
         /\ inner' = ForeColorSet(inner, value)
         /\ tlast' = TargetLast("foreColor", value, "")
    /\ UNCHANGED <<outer, style, scale, made, nassign, direct>>
    /\ UNCHANGED <<filterVars, devVars>>

\* target.inner.fillColor = value or target.inner.borderColor = value
SetInnerColor ==
    /\ \E value \in InnerColors :
         \/ /\ inner' = [inner EXCEPT !.fillColor = value]
            /\ tlast' = TargetLast("inner.fillColor", value, "")
         \/ /\ inner' = [inner EXCEPT !.borderColor = value]
            /\ tlast' = TargetLast("inner.borderColor", value, "")
    /\ UNCHANGED <<outer, style, scale, made, nassign, direct>>
    /\ UNCHANGED <<filterVars, devVars>>

\* __iter__: the key/value pairs in the order the dict holds them
IterPairs(o, i) ==
    << <<"outer_diameter", FMul(RadiusGet(o), FromInt(2))>>,
       <<"outer_stroke_width", o.lineWidth>>,
       <<"outer_fill_color", o.fillColor>>,
       <<"outer_line_color", o.borderColor>>,
       <<"inner_diameter", FMul(RadiusGet(i), FromInt(2))>>,
       <<"inner_stroke_width", o.lineWidth>>,
       <<"inner_fill_color", i.fillColor>>,
       <<"inner_line_color", i.borderColor>> >>

\* dict(target)
Iterate ==
    /\ tlast.op # "iter"
    /\ tlast' = TargetLast("iter", IterPairs(outer, inner), "")
    /\ UNCHANGED <<outer, inner, style, scale, made, nassign, direct>>
    /\ UNCHANGED <<filterVars, devVars>>

ColorNext ==
    \/ SetForeColor
    \/ SetInnerColor
    \/ Iterate
    \/ SetScale

SpecColor == TargetInit /\ [][ColorNext]_vars

\* ================================================================ properties
LastN(s, n) == SubSeq(s, Len(s) - n + 1, Len(s))

Filter == chain[1]

\* the raw field value event i was submitted with (events are numbered by
\* add() call; hist holds the values since the last clear)
RawOf(i) == FromInt(hist[i - (nadds - Len(hist))])

\* C1: for the base MovingWindowFilter of length L, every add() made once
\* at least L samples have been added returns the arithmetic mean of
\* exactly the L most recently added samples.
C1_MeanOfLastL ==
    (/\ phase = "ready"
     /\ cls = "MovingWindowFilter"
     /\ lastop = "add"
     /\ Len(hist) >= Filter.length)
        => /\ result.some
           /\ FMul(result.val, FromInt(Filter.length))
                  = FromInt(IntSum(LastN(hist, Filter.length)))

\* C1 witness: a window of length 2 has slid and the evicted sample
\* differs from the one that came in
C1_Witness ==
    /\ phase = "ready"
    /\ cls = "MovingWindowFilter"
    /\ lastop = "add"
    /\ Filter.length = 2
    /\ Len(hist) = 3
    /\ hist[1] # hist[3]
    /\ result.some

\* C2: a non-cascaded filter of length L returns a pair on exactly those
\* add() calls with at least L samples added since construction or the
\* last clear(), and isFull() is true exactly from the L-th add until
\* clear().
C2_OutputIffWindowFilled ==
    (phase = "ready" /\ Len(chain) = 1)
        => /\ IsFull(Filter) <=> Len(hist) >= Filter.length
           /\ lastop = "add" => (result.some <=> Len(hist) >= Filter.length)
           /\ err = "none"

\* C2 witness: after a clear() the window has filled again and slid on
C2_Witness ==
    /\ phase = "ready"
    /\ Len(chain) = 1
    /\ lastop = "add"
    /\ nadds > Len(hist)
    /\ Len(hist) > Filter.length
    /\ result.some

\* C3: on structured events with L > 1, knot_pos 'latest' pairs the
\* filtered value with the event just added and 'oldest' with the least
\* recently appended event still in the window.
C3_LatestIsNewestOldestIsOldest ==
    (/\ phase = "ready"
     /\ Filter.evmode
     /\ Filter.length > 1
     /\ lastop = "add"
     /\ result.some
     /\ knot_pos.isStr)
        => /\ knot_pos.s = "latest" => result.ev = nadds
           /\ knot_pos.s = "oldest" => result.ev = nadds - Filter.length + 1

\* C4: MovingWindowFilter(length=L, knot_pos=k) raises ValueError exactly
\* when k is a string other than 'center', 'latest', 'oldest', or 'center'
\* with even L, or a number outside [0, L); otherwise the tap index lies in
\* [0, L), and is L // 2 for 'center'.
C4_ConstructionStep ==
    (/\ phase = "new"
     /\ phase' # "new"
     /\ cls \in {"MovingWindowFilter", "MedianFilter"})
        => LET kp == kwargs.knot_pos
               L == kwargs.length
               bad == \/ kp.isStr /\ kp.s \notin {"center", "latest", "oldest"}
                      \/ kp.isStr /\ kp.s = "center" /\ L % 2 = 0
                      \/ ~kp.isStr /\ ~(0 <= kp.n /\ kp.n < L)
           IN  /\ bad <=> (phase' = "failed" /\ err' = "ValueError")
               /\ ~bad => /\ phase' = "ready"
                          /\ chain'[1].length = L
                          /\ chain'[1].active_index \in 0..(L - 1)
                          /\ (kp.isStr /\ kp.s = "center")
                                => chain'[1].active_index = L \div 2

C4_ConstructionErrors == [][C4_ConstructionStep]_vars

\* C4 witness: a centered knot on an even length was refused
C4_Witness ==
    /\ phase = "failed"
    /\ cls = "MovingWindowFilter"
    /\ knot_pos = StrKnot("center")
    /\ err = "ValueError"

\* C5: when add() of an event returns (tapped_event, filtered_value): with
\* in_place the tapped event's field equals filtered_value afterwards and
\* no other event is modified; without in_place no event is modified.
C5_AddStep ==
    (/\ phase = "ready"
     /\ lastop' = "add"
     /\ nadds' = nadds + 1
     /\ Filter.evmode
     /\ result'.some)
        => LET tap == result'.ev
               before(i) == IF i = nadds' THEN FromInt(hist'[Len(hist')])
                            ELSE heap[i]
           IN  /\ tap \in DOMAIN heap'
               /\ Filter.inplace => heap'[tap] = result'.val
               /\ \A i \in DOMAIN heap' :
                      (i # tap \/ ~Filter.inplace) => heap'[i] = before(i)

C5_InPlaceFrame == [][C5_AddStep]_vars

\* C5 witness: an in-place filter returned an event whose field now holds
\* the filtered value, which differs from the value it was submitted with
C5_Witness ==
    /\ phase = "ready"
    /\ lastop = "add"
    /\ Filter.evmode
    /\ Filter.inplace
    /\ result.some
    /\ heap[result.ev] = result.val
    /\ result.val # RawOf(result.ev)

\* C6: PassThroughFilter ignores the caller's length and knot_pos (length
\* 1, tap 0) and every add(x), the first included, returns x.
C6_PassThrough ==
    (cls = "PassThroughFilter" /\ phase # "new")
        => /\ phase = "ready"
           /\ Filter.length = 1
           /\ Filter.active_index = 0
           /\ lastop = "add"
                 => /\ result.some
                    /\ result.val = FromInt(hist[Len(hist)])

\* C6 witness: the very first add returned its argument
C6_Witness ==
    /\ cls = "PassThroughFilter"
    /\ phase = "ready"
    /\ lastop = "add"
    /\ nadds = 1
    /\ result.some
    /\ result.val = FromInt(MaxVal)

\* C7: a MedianFilter of odd length L returns, once full, the median of
\* the L most recent samples: a sample of the window with at most L // 2
\* samples below it and at most L // 2 above it.
C7_Median ==
    (/\ phase = "ready"
     /\ cls = "MedianFilter"
     /\ Filter.length % 2 = 1
     /\ lastop = "add"
     /\ Len(hist) >= Filter.length)
        => LET L == Filter.length
               w == LastN(hist, L)
           IN  /\ result.some
               /\ \E i \in 1..L :
                      /\ result.val = FromInt(w[i])
                      /\ Cardinality({j \in 1..L : w[j] < w[i]}) <= L \div 2
                      /\ Cardinality({j \in 1..L : w[j] > w[i]}) <= L \div 2

\* C7 witness: the median of a window of 3 is not the sample in the
\* middle position
C7_Witness ==
    /\ phase = "ready"
    /\ cls = "MedianFilter"
    /\ Filter.length = 3
    /\ lastop = "add"
    /\ Len(hist) > 3
    /\ result.some
    /\ result.val # FromInt(hist[Len(hist) - 1])

\* C8: a WeightedAverageFilter built from n weights has length n, stores
\* the weights normalized to sum 1 (w / sum(w)), emits nothing before n
\* samples, and then outputs sum_i s_i * w_(n-1-i) / sum(w).
C8_BuildStep ==
    (/\ phase = "new"
     /\ cls = "WeightedAverageFilter"
     /\ phase' = "ready")
        => LET w == kwargs.weights
               n == Len(w)
           IN  /\ chain'[1].length = n
               /\ Len(weights') = n
               /\ FSum(weights') = FromInt(1)
               /\ \A i \in 1..n :
                      FMul(weights'[i], FromInt(IntSum(w))) = FromInt(w[i])

C8_Output ==
    (/\ phase = "ready"
     /\ cls = "WeightedAverageFilter"
     /\ lastop = "add")
        => LET n == Len(weights)
           IN  /\ result.some <=> Len(hist) >= n
               /\ result.some
                     => result.val
                            = FSum([i \in 1..n |->
                                       FMul(FromInt(LastN(hist, n)[i]),
                                            weights[n + 1 - i])])

C8_WeightedAverage == [][C8_BuildStep]_vars /\ []C8_Output

\* C9: a level-1 StampFilter whose window (v1, v2, v3) is not strictly
\* monotonic in either direction returns (v1 + v3) / 2.
C9_StampNonMonotonic ==
    (/\ phase = "ready"
     /\ cls = "StampFilter"
     /\ Len(chain) = 1
     /\ lastop = "add"
     /\ Len(hist) >= 3)
        => LET w == LastN(hist, 3)
               mono == \/ (w[1] < w[2] /\ w[2] < w[3])
                       \/ (w[1] > w[2] /\ w[2] > w[3])
           IN  ~mono => /\ result.some
                        /\ FMul(result.val, FromInt(2)) = FromInt(w[1] + w[3])

\* C9 witness: a spike (0, MaxVal, 1) was replaced by the mean of its
\* neighbours
C9_Witness ==
    /\ phase = "ready"
    /\ cls = "StampFilter"
    /\ Len(chain) = 1
    /\ lastop = "add"
    /\ Len(hist) >= 3
    /\ LastN(hist, 3) = <<0, MaxVal, 1>>
    /\ result.some
    /\ result.val = Frac(1, 2)

\* C10: a level-1 StampFilter whose window (v1, v2, v3) is strictly
\* monotonic returns the middle sample v2 unchanged, evenly spaced or not.
C10_StampMonotonic ==
    (/\ phase = "ready"
     /\ cls = "StampFilter"
     /\ Len(chain) = 1
     /\ lastop = "add"
     /\ Len(hist) >= 3)
        => LET w == LastN(hist, 3)
               mono == \/ (w[1] < w[2] /\ w[2] < w[3])
                       \/ (w[1] > w[2] /\ w[2] > w[3])
           IN  mono => /\ result.some
                       /\ result.val = FromInt(w[2])

\* C11: a StampFilter of level 2 returns nothing from add() before its
\* level-1 sub filter has produced 3 values, i.e. before the 5th raw sample.
C11_Level2NeedsFiveSamples ==
    (/\ phase = "ready"
     /\ cls = "StampFilter"
     /\ Filter.level = 2
     /\ lastop = "add"
     /\ result.some)
        => nadds >= 5

\* a filter of the same configuration as chain c, as its constructor
\* leaves it
AsConstructed(c) ==
    [k \in 1..Len(c) |-> [c[k] EXCEPT !.buf = <<>>, !.events = <<>>]]

\* what the last of the calls add(xs[1]), add(xs[2]), ... returns on the
\* filter c, n events having been made before
RECURSIVE Replay(_, _, _, _)
Replay(c, h, xs, n) ==
    LET r == FilterAdd(c, h, cls, weights, n + 1, Head(xs))
    IN  IF Len(xs) = 1 THEN r ELSE Replay(r.chain, r.heap, Tail(xs), n + 1)

\* C17: clear() is a full reset for every filter variant, a StampFilter of
\* level > 1 included: isFull() is false right after it, and every add()
\* afterwards returns what a freshly constructed filter of the same
\* configuration returns for the samples added since the clear.
C17_ClearIsFullReset ==
    phase = "ready"
        => /\ lastop = "clear" => ~IsFull(Filter)
           /\ (lastop = "add" /\ nadds > Len(hist))
                 => LET f == Replay(AsConstructed(chain), <<>>, hist, 0)
                    IN  /\ err = f.err
                        /\ result.some = f.res.some
                        /\ result.val = f.res.val

\* C12: _addInputEvent(evt) appends evt to the end of the pending inputs and
\* then calls process() exactly once, so process() sees evt as the last
\* pending input; the pending inputs of a filter grow in submission order and
\* shrink only through clearInputEvents() or reset().
C12_SubmitAppendsThenProcesses ==
    [][ /\ dlast'.op = "submit"
            => /\ dlast'.calls = 1
               /\ dlast'.seen = Append(input_events[dlast'.f], nsub')
               /\ dlast'.seen[Len(dlast'.seen)] = nsub'
               /\ input_events'[dlast'.f] \in {dlast'.seen, <<>>}
        /\ \A g \in DevFilters :
              \/ input_events'[g] = input_events[g]
              \/ /\ dlast'.op = "submit" /\ dlast'.f = g
              \/ /\ dlast'.op \in {"reset", "clearInputEvents"} /\ dlast'.f = g
                 /\ input_events'[g] = <<>>
      ]_vars

C12_Witness ==
    /\ dlast.op = "submit"
    /\ dlast.calls = 1
    /\ Len(dlast.seen) >= 2
    /\ input_events[dlast.f] = dlast.seen
    /\ output_events[dlast.f] # <<>>
\* C13: after addOutputEvent(e) on a concrete filter, e is the last pending
\* output of that filter, its filter-id slot is the filter's filter_id and its
\* event-id slot is the id just drawn from the counter; the ids drawn over all
\* emits of all filters are pairwise distinct and strictly increasing.
C13_EmitStampsAndQueues ==
    [][ Len(stamped') > Len(stamped)
            => LET f == dlast'.f
                   q == output_events'[f]
                   e == q[Len(q)]
               IN  /\ q # <<>>
                   /\ Len(q) - Len(output_events[f]) = Len(stamped') - Len(stamped)
                   /\ SubSeq(q, 1, Len(output_events[f])) = output_events[f]
                   /\ e = emitted'[f][Len(emitted'[f])]
                   /\ slots'[e].filter_id = FilterIdOf(f)
                   /\ slots'[e].event_id = stamped'[Len(stamped')]
                   /\ SubSeq(stamped', 1, Len(stamped)) = stamped
                   /\ \A i, j \in 1..Len(stamped') : i < j => stamped'[i] < stamped'[j]
                   /\ \A g \in DevFilters \ {f} : output_events'[g] = output_events[g]
      ]_vars

C13_Witness ==
    /\ dlast.op = "submit"
    /\ Len(stamped) >= 3
    /\ \E f, g \in DevFilters : f # g /\ emitted[f] # <<>> /\ emitted[g] # <<>>
    /\ Len(output_events[dlast.f]) >= 2
\* C14: _removeOutputEvents() returns the events emitted since the previous
\* drain or reset, in emit order, and leaves the pending outputs empty; every
\* emitted event is returned by exactly one drain, and the list a drain
\* returned is not changed by later emits.
C14_DrainReturnsEachEmitOnce ==
    [][ /\ \A g \in DevFilters : emitted'[g] = drained'[g] \o output_events'[g]
        /\ dlast'.op = "drain"
            => /\ dlast'.ret = output_events[dlast'.f]
               /\ output_events'[dlast'.f] = <<>>
               /\ drained'[dlast'.f] = drained[dlast'.f] \o dlast'.ret
               /\ emitted' = emitted
      ]_vars

C14_Witness ==
    /\ dlast.op = "drain"
    /\ dlast.ret # <<>>
    /\ Len(drained[dlast.f]) > Len(dlast.ret)
    /\ emitted[dlast.f] = drained[dlast.f]
\* C15: reset() leaves both queues of the filter empty, whatever they held; a
\* drain right after it returns nothing, a later drain returns only events
\* emitted after the reset; the enabled flag and the filter's identity stay.
C15_ResetEmptiesBothQueues ==
    [][ /\ dlast'.op = "reset"
            => /\ input_events'[dlast'.f] = <<>>
               /\ output_events'[dlast'.f] = <<>>
               /\ enabled' = enabled
               /\ dcls' = dcls
               /\ \A g \in DevFilters \ {dlast'.f} :
                     /\ input_events'[g] = input_events[g]
                     /\ output_events'[g] = output_events[g]
        /\ (dlast.op = "reset" /\ dlast'.op = "drain" /\ dlast'.f = dlast.f)
            => dlast'.ret = <<>>
        /\ dlast'.op = "drain"
            => \A i \in 1..Len(dlast'.ret) :
                  \E j \in 1..Len(emitted[dlast'.f]) : emitted[dlast'.f][j] = dlast'.ret[i]
      ]_vars

C15_Witness ==
    /\ dlast.op = "reset"
    /\ Len(dlast.seen) >= 2
    /\ enabled[dlast.f]
    /\ input_events[dlast.f] = <<>>
    /\ output_events[dlast.f] = <<>>
\* the exception classes a handler of NotImplementedError catches
NotImplementedClass == {"NotImplementedError"}

\* C16 as stated: on a DeviceEventFilter with nothing overridden, process(),
\* filter_id and input_event_types each fail with a NotImplemented-class
\* error instead of returning a value, and construction succeeds.
C16_MembersFailNotImplemented ==
    /\ dlast.op = "construct" => dlast.err = "none"
    /\ dlast.op \in {"process", "filter_id", "input_event_types", "submit"}
        => dlast.err \in NotImplementedClass /\ dlast.ret = <<>>

\* C16 amended: on a DeviceEventFilter with nothing overridden, process()
\* (called directly or by _addInputEvent), filter_id and input_event_types
\* each fail with RuntimeError instead of returning a value; an event handed
\* to _addInputEvent is queued before the failure; construction succeeds.
C16_MembersFailRuntimeError ==
    /\ dlast.op = "construct"
        => /\ dlast.err = "none"
           /\ \A f \in DevFilters :
                 input_events[f] = <<>> /\ output_events[f] = <<>> /\ ~enabled[f]
    /\ dlast.op \in {"process", "filter_id", "input_event_types", "submit"}
        => /\ dlast.err = "RuntimeError"
           /\ dlast.err \notin NotImplementedClass
           /\ dlast.ret = <<>>
           /\ dlast.calls = 1 => dlast.seen = input_events[dlast.f]
    /\ \A f \in DevFilters : output_events[f] = <<>>

C16_Witness ==
    /\ dlast.op = "filter_id"
    /\ dlast.err = "RuntimeError"
    /\ input_events[dlast.f] # <<>>
    /\ enabled[dlast.f]
\* everything of a shape but its contour
NoContour(shape) == [shape EXCEPT !.vertices = ""]

\* C18: style 'circles' makes both contours a circle, style 'cross' makes the
\* outer contour a circle and the inner one a cross, from any prior style; a
\* style change alters nothing but contours, and from 'circles' a change to
\* 'cross' changes only the inner contour.
C18_StyleSetsContoursOnly ==
    [][ (tlast'.op = "style" /\ tlast'.arg \in knownStyles)
            => /\ outer'.vertices = "circle"
               /\ inner'.vertices = IF tlast'.arg = "circles" THEN "circle" ELSE "cross"
               /\ style' = tlast'.arg
               /\ NoContour(outer') = NoContour(outer)
               /\ NoContour(inner') = NoContour(inner)
               /\ scale' = scale
               /\ (style = "circles" /\ tlast'.arg = "cross") => outer' = outer
      ]_vars

C18_Witness ==
    /\ tlast.op = "style"
    /\ tlast.was = "circles"
    /\ tlast.arg = "cross"
    /\ inner.vertices = "cross"
    /\ outer.vertices = "circle"
    /\ scale.has

\* C19: assigning a style other than 'circles' and 'cross' raises nothing
\* and has no effect: both contours stay and style still reads back as the
\* last valid style.
C19_UnknownStyleIgnored ==
    [][ (tlast'.op = "style" /\ tlast'.arg \notin knownStyles)
            => /\ outer' = outer
               /\ inner' = inner
               /\ style \in knownStyles => style' = style
      ]_vars

\* C20: without direct radius writes, radius and innerRadius read as their
\* values read right after construction times the most recent scale factor.
C20_RadiiFollowScale ==
    ~direct
        => /\ RadiusGet(outer) = FMul(made.radius, ScaleGet(scale))
           /\ RadiusGet(inner) = FMul(made.innerRadius, ScaleGet(scale))
\* the average of half the width and half the height of a shape
HalfSizeAverage(shape) ==
    FDiv(FAdd(FDiv(shape.size[1], FromInt(2)), FDiv(shape.size[2], FromInt(2))),
         FromInt(2))

\* C21: radius and innerRadius read as the average of half the width and half
\* the height of the shape's size: right after construction with radius=r the
\* getter returns r, and after radius = v it returns v.
C21_RadiusIsHalfSize ==
    /\ RadiusGet(outer) = HalfSizeAverage(outer)
    /\ RadiusGet(inner) = HalfSizeAverage(inner)
    /\ tlast.op = "construct"
        => /\ RadiusGet(outer) = made.args.radius
           /\ RadiusGet(inner) = made.args.innerRadius
    /\ tlast.op = "radius" => RadiusGet(outer) = tlast.arg
    /\ tlast.op = "innerRadius" => RadiusGet(inner) = tlast.arg
\* everything of a shape but its two colours
NoColors(shape) == [shape EXCEPT !.fillColor = "", !.borderColor = ""]

\* C22: foreColor reads the inner fill colour when that is non-null, else the
\* inner border colour (null when both are null); foreColor = v overwrites
\* exactly the inner colours that are non-null and nothing of the outer shape;
\* after a non-null v with some inner colour non-null, foreColor reads v.
C22_ForeColorProxiesInnerColors ==
    [][ /\ ForeColorGet(inner') = IF inner'.fillColor # "None" THEN inner'.fillColor
                                  ELSE IF inner'.borderColor # "None" THEN inner'.borderColor
                                  ELSE "None"
        /\ tlast'.op = "foreColor"
            => /\ inner'.fillColor =
                     IF inner.fillColor # "None" THEN tlast'.arg ELSE "None"
               /\ inner'.borderColor =
                     IF inner.borderColor # "None" THEN tlast'.arg ELSE "None"
               /\ NoColors(inner') = NoColors(inner)
               /\ outer' = outer
               /\ (/\ tlast'.arg # "None"
                   /\ inner.fillColor # "None" \/ inner.borderColor # "None")
                     => ForeColorGet(inner') = tlast'.arg
      ]_vars

C22_Witness ==
    /\ tlast.op = "foreColor"
    /\ tlast.arg = "blue"
    /\ inner.fillColor = "None"
    /\ inner.borderColor = "blue"
    /\ ForeColorGet(inner) = "blue"
    /\ outer.borderColor = "white"

\* the keys __iter__ is to yield, in order
IterKeys ==
    <<"outer_diameter", "outer_stroke_width", "outer_fill_color", "outer_line_color",
      "inner_diameter", "inner_stroke_width", "inner_fill_color", "inner_line_color">>

\* C23: iterating a target yields 8 key/value pairs in the documented order,
\* each value the current value of the attribute of its shape (diameters
\* twice the radii, inner_stroke_width the inner shape's line width), and
\* changes no state.
C23_IterationYieldsAttributes ==
    [][ tlast'.op = "iter"
            => /\ Len(tlast'.arg) = 8
               /\ \A k \in 1..8 : tlast'.arg[k][1] = IterKeys[k]
               /\ tlast'.arg[1][2] = FMul(RadiusGet(outer), FromInt(2))
               /\ tlast'.arg[2][2] = outer.lineWidth
               /\ tlast'.arg[3][2] = outer.fillColor
               /\ tlast'.arg[4][2] = outer.borderColor
               /\ tlast'.arg[5][2] = FMul(RadiusGet(inner), FromInt(2))
               /\ tlast'.arg[6][2] = inner.lineWidth
               /\ tlast'.arg[7][2] = inner.fillColor
               /\ tlast'.arg[8][2] = inner.borderColor
               /\ UNCHANGED <<outer, inner, style, scale>>
      ]_vars

\* C30: under foreColor assignments a null inner colour stays null; once both
\* inner colours are null, a foreColor assignment changes nothing and
\* foreColor reads null.
C30_NullChannelsStayNull ==
    [][ tlast'.op = "foreColor"
            => /\ inner.fillColor = "None" => inner'.fillColor = "None"
               /\ inner.borderColor = "None" => inner'.borderColor = "None"
               /\ (inner.fillColor = "None" /\ inner.borderColor = "None")
                     => /\ inner' = inner
                        /\ outer' = outer
                        /\ ForeColorGet(inner') = "None"
      ]_vars

C30_Witness ==
    /\ tlast.op = "foreColor"
    /\ tlast.arg = "blue"
    /\ made.args.innerFillColor = "red"
    /\ inner.fillColor = "None"
    /\ inner.borderColor = "None"
    /\ ForeColorGet(inner) = "None"
\* what a level-1 StampFilter has returned for the samples xs, in order (one
\* value per add from the third on)
SubOutputs(xs) ==
    [j \in 1..(IF Len(xs) >= 3 THEN Len(xs) - 2 ELSE 0) |->
        StampFilteredValue(<<FromInt(xs[j]), FromInt(xs[j + 1]), FromInt(xs[j + 2])>>)]

\* the last n elements of s, or all of s when it has fewer
UpToLastN(s, n) == IF Len(s) <= n THEN s ELSE LastN(s, n)

\* C24: in a StampFilter of level 2 the outer window holds only outputs of the
\* sub filter, never raw samples, and the value returned is the Stampe
\* reduction of the three most recent sub filter outputs.
C24_OuterWindowHoldsSubOutputs ==
    (/\ phase = "ready"
     /\ cls = "StampFilter"
     /\ Filter.level = 2
     /\ lastop = "add"
     /\ nadds = Len(hist)
     /\ err = "none")
        => /\ Filter.buf = UpToLastN(SubOutputs(hist), 3)
           /\ result.some
                => /\ Len(SubOutputs(hist)) >= 3
                   /\ result.val = StampFilteredValue(LastN(SubOutputs(hist), 3))

\* C25: a StampFilter of any level working on events returns, as the tapped
\* event, the middle one of the three most recently submitted events: the
\* event submitted one add before the current one.
C25_TapIsPreviousEvent ==
    (/\ phase = "ready"
     /\ cls = "StampFilter"
     /\ Filter.evmode
     /\ lastop = "add"
     /\ result.some)
        => result.ev = nadds - 1
\* C26: a filter of any variant built without event_type / event_field_name
\* takes bare scalars: no add() raises, no event buffer is touched, and once
\* the window is full add() returns (None, filtered value).
C26_ScalarAddNeverRaises ==
    (/\ phase = "ready"
     /\ ~Filter.evmode
     /\ lastop = "add")
        => /\ err = "none"
           /\ \A k \in 1..Len(chain) : chain[k].events = <<>>
           /\ heap = <<>>
           /\ IsFull(Filter) => (result.some /\ result.ev = 0)
           /\ result.some => IsFull(Filter)
\* the events whose field an add() step has overwritten: the field differs
\* from what it held before, or from the submitted value for the new event
Written ==
    {i \in DOMAIN heap' :
        heap'[i] # (IF i \in DOMAIN heap THEN heap[i] ELSE FromInt(hist'[Len(hist')]))}

\* C27: a StampFilter built with level N has exactly N instances along
\* sub_filter, of levels N, N-1, ..., 1, the innermost without sub filter;
\* every nested instance has inplace off whatever the caller passed; an add()
\* overwrites the field of at most one event, the one the outer instance taps.
C27_StampChain ==
    [][ /\ (phase = "new" /\ cls = "StampFilter" /\ phase' # "new")
            => /\ phase' = "ready"
               /\ Len(chain') = kwargs.level
               /\ \A k \in 1..Len(chain') :
                     /\ chain'[k].level = kwargs.level - k + 1
                     /\ chain'[k].length = 3
                     /\ k > 1 => ~chain'[k].inplace
               /\ chain'[1].inplace = kwargs.inplace
        /\ (phase = "ready" /\ cls = "StampFilter" /\ lastop' = "add")
            => /\ \A k \in 2..Len(chain') : ~chain'[k].inplace
               /\ Cardinality(Written) <= 1
               /\ Written # {} => (chain'[1].inplace /\ result'.some /\ Written = {result'.ev})
      ]_vars

C27_Witness ==
    /\ phase = "ready"
    /\ cls = "StampFilter"
    /\ Len(chain) = 2
    /\ chain[1].inplace
    /\ ~chain[2].inplace
    /\ lastop = "add"
    /\ result.some
    /\ heap[result.ev] = result.val
    /\ result.val # RawOf(result.ev)
\* C28: a filter working on events, of any class, tap and level, with no
\* clear() so far: each add() that returns something taps a submitted event
\* later in submission order than the one tapped by the add() before, so no
\* event is tapped twice and taps come out in submission order.
C28_TapsInSubmissionOrder ==
    [][ (/\ phase = "ready"
         /\ Filter.evmode
         /\ lastop' = "add"
         /\ nadds' = Len(hist'))
            => /\ err' = "none"
               /\ result.some => result'.some
               /\ result'.some
                    => /\ result'.ev \in 1..nadds'
                       /\ result.some => result'.ev > result.ev
      ]_vars

C28_Witness ==
    /\ phase = "ready"
    /\ Filter.evmode
    /\ lastop = "add"
    /\ nadds = Len(hist)
    /\ result.some
    /\ result.ev >= 2
    /\ result.ev < nadds
    /\ Filter.length = 2
\* the chain c with the caller's inplace set to b
WithInplace(c, b) == [c EXCEPT ![1].inplace = b]

\* C29: in-place overwriting does not feed back into the window: for the
\* same submitted field values a filter with inplace set and the same filter
\* with inplace unset hold the same windows and return the same filtered
\* value at every add().
C29_InPlaceDoesNotFeedBack ==
    (/\ phase = "ready"
     /\ Filter.evmode
     /\ lastop = "add"
     /\ nadds = Len(hist))
        => LET on == Replay(WithInplace(AsConstructed(chain), TRUE), <<>>, hist, 0)
               off == Replay(WithInplace(AsConstructed(chain), FALSE), <<>>, hist, 0)
           IN  /\ on.res.some = off.res.some
               /\ on.res.val = off.res.val
               /\ on.res.ev = off.res.ev
               /\ \A k \in 1..Len(chain) :
                     /\ on.chain[k].buf = off.chain[k].buf
                     /\ chain[k].buf = off.chain[k].buf
               /\ result.some = off.res.some
               /\ result.val = off.res.val
               /\ Len(chain) = 1
                    => Filter.buf = [j \in 1..Len(Filter.buf) |->
                                       FromInt(hist[Len(hist) - Len(Filter.buf) + j])]

C29_Witness ==
    /\ phase = "ready"
    /\ Filter.evmode
    /\ Filter.inplace
    /\ lastop = "add"
    /\ nadds = Len(hist)
    /\ nadds > Filter.length
    /\ result.some
    /\ \E i \in DOMAIN heap : i < result.ev /\ heap[i] # RawOf(i)
    /\ heap[result.ev] # RawOf(result.ev)
====
